---- MODULE Spec2Model ----
(***************************************************************************)
(* Website health checker (src/code.py): URL validation, the four probes,  *)
(* the suggestion synthesizer and the orchestrator run_website_test.       *)
(*                                                                         *)
(* Strings are sequences of lexical atoms: every delimiter character the   *)
(* code or urllib.parse looks at (":" "/" "#" "?" "@" " " tab) is an atom   *)
(* of its own, and a run of other characters ("https", "a.com", "p1") is   *)
(* one atom.  Two word atoms are never adjacent, so startswith, split and  *)
(* find on the atoms agree with the same operations on the characters.     *)
(***************************************************************************)
EXTENDS Integers, Sequences, FiniteSets, TLC

VARIABLES
    pc,             \* position of the run: which call of the code is next
    input,          \* the raw string handed to validate_url / run_website_test
    url,            \* the normalized URL (validate_url's return value)
    status,         \* results['status']: check_site_status's return value
    ssl,            \* results['ssl']
    page,           \* the anchors' href values of the page find_broken_links fetched
    server,         \* how the site answers the HEAD probes of this run
    links_to_check, \* find_broken_links: list(links)[:MAX_LINKS_TO_CHECK]
    idx,            \* find_broken_links: number of links the for loop has consumed
    broken,         \* find_broken_links: its local list, results['broken_links'] once returned
    mobile,         \* results['mobile']
    sargs,          \* the arguments of the generate_suggestions call
    suggestions,    \* results['suggestions']
    outcome,        \* how the run ended: "" (running), "completed", "error"
    escaped,        \* the probe whose exception reached run_website_test's handler
    calls,          \* history: how often each network operation / probe was issued
    probed          \* history: the HEAD requests issued, in order: link, its host, the answer

vars == <<pc, input, url, status, ssl, page, server, links_to_check, idx, broken,
          mobile, sargs, suggestions, outcome, escaped, calls, probed>>

----------------------------------------------------------------------------
(* Bounds of the model *)

\* longest raw input enumerated for validate_url
MaxInputLen == 5
\* most anchors on an exhaustively enumerated small page
MaxAnchors == 2
\* how many distinct same-domain links the largest page has beyond the ceiling
MaxOver == 1
\* most HEAD probes that deviate from the server's usual answer, when
\* find_broken_links is checked on its own / within a whole run
MaxFaults == 1
MaxRunFaults == 0

\* longest set of links whose every iteration order is enumerated
MaxPermuted == 3
\* longest broken-links list handed to generate_suggestions directly
MaxBroken == 2
\* how far beyond SSL_EXPIRY_THRESHOLD the enumerated days_left values go
MaxDaysOver == 2

(* Program constants: CONFIG *)
SSL_EXPIRY_THRESHOLD == 15
MAX_LINKS_TO_CHECK == 20
\* "load_time > 3", with load times in milliseconds, and "resp.status_code >= 400"
LOAD_TIME_THRESHOLD == 3000
BROKEN_STATUS == 400

\* Python's None / a present value, for days_left and load_time
None == <<>>
Some(v) == <<v>>

----------------------------------------------------------------------------
(* Sequence helpers *)

Range(s) == {s[i] : i \in 1..Len(s)}

\* str.startswith
StartsWith(s, p) == Len(s) >= Len(p) /\ SubSeq(s, 1, Len(p)) = p

\* s[n:]
Drop(s, n) == IF n >= Len(s) THEN <<>> ELSE SubSeq(s, n + 1, Len(s))

\* s[:n]
Take(s, n) == IF n >= Len(s) THEN s ELSE SubSeq(s, 1, n)

\* str.find for a set of delimiter atoms: first position holding one, 0 when none
FindAny(s, delims) ==
    IF \E i \in 1..Len(s) : s[i] \in delims
    THEN CHOOSE i \in 1..Len(s) : s[i] \in delims /\ \A j \in 1..(i - 1) : s[j] \notin delims
    ELSE 0

RECURSIVE SplitOn(_, _)
\* str.split(d): the pieces between the occurrences of atom d (always at least one piece)
SplitOn(s, d) ==
    IF FindAny(s, {d}) = 0 THEN <<s>>
    ELSE <<Take(s, FindAny(s, {d}) - 1)>> \o SplitOn(Drop(s, FindAny(s, {d})), d)

RECURSIVE JoinWith(_, _)
\* d.join(parts)
JoinWith(parts, d) ==
    IF Len(parts) = 0 THEN <<>>
    ELSE IF Len(parts) = 1 THEN parts[1]
    ELSE parts[1] \o <<d>> \o JoinWith(Tail(parts), d)

RECURSIVE SeqFilterOut(_, _)
\* the sequence without the atoms of `drop`
SeqFilterOut(s, drop) ==
    IF s = <<>> THEN <<>>
    ELSE IF Head(s) \in drop THEN SeqFilterOut(Tail(s), drop)
    ELSE <<Head(s)>> \o SeqFilterOut(Tail(s), drop)

RECURSIVE LStrip(_, _)
\* str.lstrip(chars)
LStrip(s, chars) ==
    IF s # <<>> /\ Head(s) \in chars THEN LStrip(Tail(s), chars) ELSE s

Reverse(s) == [i \in 1..Len(s) |-> s[Len(s) + 1 - i]]

----------------------------------------------------------------------------
(* urllib.parse, as far as the code uses it *)

SP == " "
TAB == "\t"

\* word atoms that are a valid URL scheme (a letter, then letters, digits, + - .)
SchemeWords == {"http", "https", "javascript", "mailto", "a.com", "b.com", "www.a.com"}
    \cup {"p1", "p2", "p3", "p4", "p5", "p6", "p7", "p8", "p9", "p10", "p11", "p12",
          "p13", "p14", "p15", "p16", "p17", "p18", "p19", "p20", "p21", "p22", "p23",
          "p24", "p25", "p26", "dir", "page"}
\* schemes urllib.parse resolves relative references for / that carry a netloc
UsesRelative == {"http", "https"}
UsesNetloc == {"http", "https"}

\* the one element of a singleton set; {F(x) : x \in {e}} evaluates e once for F
Only(S) == CHOOSE x \in S : TRUE

\* urlsplit, last part: cut the fragment, then the query, off what follows the netloc
SplitTail(scheme, netloc, rest) ==
    LET fpos == FindAny(rest, {"#"})
        qpos == FindAny(Take(rest, IF fpos = 0 THEN Len(rest) ELSE fpos - 1), {"?"})
    IN  [scheme |-> scheme, netloc |-> netloc,
         path |-> IF qpos # 0 THEN Take(rest, qpos - 1)
                  ELSE IF fpos # 0 THEN Take(rest, fpos - 1) ELSE rest,
         query |-> IF qpos = 0 THEN <<>>
                   ELSE IF fpos = 0 THEN Drop(rest, qpos)
                   ELSE SubSeq(rest, qpos + 1, fpos - 1),
         fragment |-> IF fpos = 0 THEN <<>> ELSE Drop(rest, fpos)]

\* urlsplit, middle part: a netloc follows "//" and ends before the first / ? #
SplitNetloc(scheme, rest) ==
    IF ~StartsWith(rest, <<"/", "/">>) THEN SplitTail(scheme, <<>>, rest)
    ELSE LET cut == FindAny(Drop(rest, 2), {"/", "?", "#"})
         IN  IF cut = 0 THEN SplitTail(scheme, Drop(rest, 2), <<>>)
             ELSE SplitTail(scheme, SubSeq(rest, 3, cut + 1), Drop(rest, cut + 1))

\* urlsplit, first part: a scheme is a scheme word followed by ":"
SplitScheme(clean, default) ==
    IF Len(clean) >= 2 /\ clean[1] \in SchemeWords /\ clean[2] = ":"
    THEN Only({SplitNetloc(clean[1], rest) : rest \in {Drop(clean, 2)}})
    ELSE SplitNetloc(default, clean)

\* urlsplit: leading blanks are stripped, tabs are removed, then scheme, netloc,
\* query and fragment are cut off; `default` is the scheme used when none is given
UrlParse(u, default) ==
    Only({SplitScheme(clean, default) : clean \in {SeqFilterOut(LStrip(u, {SP, TAB}), {TAB})}})

\* urlparse(url)
urlparse(u) == UrlParse(u, "")

\* urlunsplit
UrlUnparse(scheme, netloc, path, query, fragment) ==
    (IF scheme # "" THEN <<scheme, ":">> ELSE <<>>)
    \o (IF netloc # <<>> \/ (scheme \in UsesNetloc /\ ~StartsWith(path, <<"/", "/">>))
        THEN <<"/", "/">> \o netloc
             \o (IF path # <<>> /\ path[1] # "/" THEN <<"/">> ELSE <<>>) \o path
        ELSE path)
    \o (IF query # <<>> THEN <<"?">> \o query ELSE <<>>)
    \o (IF fragment # <<>> THEN <<"#">> \o fragment ELSE <<>>)

RECURSIVE ResolveDots(_, _)
\* urljoin's loop over the path segments: ".." pops, "." is skipped
ResolveDots(segments, acc) ==
    IF segments = <<>> THEN acc
    ELSE IF Head(segments) = <<"..">>
    THEN ResolveDots(Tail(segments), Take(acc, Len(acc) - 1))
    ELSE IF Head(segments) = <<".">> THEN ResolveDots(Tail(segments), acc)
    ELSE ResolveDots(Tail(segments), Append(acc, Head(segments)))

\* segments[1:-1] = filter(None, segments[1:-1])
DropEmptyInner(segments) ==
    IF Len(segments) <= 2 THEN segments
    ELSE <<segments[1]>>
         \o SelectSeq(SubSeq(segments, 2, Len(segments) - 1), LAMBDA x : x # <<>>)
         \o <<segments[Len(segments)]>>

\* bpath.split('/'), without its last piece unless that is empty
BaseParts(bpath) ==
    Only({IF parts[Len(parts)] # <<>> THEN Take(parts, Len(parts) - 1) ELSE parts :
          parts \in {SplitOn(bpath, "/")}})

\* urljoin, the path: the reference's segments, after the base's unless it is rooted
JoinSegments(b, r) ==
    IF r.path[1] = "/" THEN SplitOn(r.path, "/")
    ELSE DropEmptyInner(BaseParts(b.path) \o SplitOn(r.path, "/"))

\* urljoin, the path: '/'.join(resolved_path) or '/'
JoinedPath(segments) ==
    Only({IF joined = <<>> THEN <<"/">> ELSE joined :
          joined \in {JoinWith(ResolveDots(segments, <<>>)
                               \o (IF segments[Len(segments)] \in {<<".">>, <<"..">>}
                                   THEN <<<<>>>> ELSE <<>>), "/")}})

\* urljoin once base and reference are parsed
JoinParsed(b, r, ref) ==
    IF r.scheme # b.scheme \/ r.scheme \notin UsesRelative THEN ref
    ELSE IF r.scheme \in UsesNetloc /\ r.netloc # <<>>
    THEN UrlUnparse(r.scheme, r.netloc, r.path, r.query, r.fragment)
    ELSE IF r.path = <<>>
    THEN UrlUnparse(r.scheme, b.netloc, b.path,
                    IF r.query = <<>> THEN b.query ELSE r.query, r.fragment)
    ELSE Only({UrlUnparse(r.scheme, b.netloc, JoinedPath(segments), r.query, r.fragment) :
               segments \in {JoinSegments(b, r)}})

\* urljoin(base, ref)
urljoin(base, ref) ==
    IF base = <<>> THEN ref
    ELSE IF ref = <<>> THEN base
    ELSE Only({Only({JoinParsed(b, r, ref) : r \in {UrlParse(ref, b.scheme)}}) :
               b \in {urlparse(base)}})

\* the host of a netloc: without "userinfo@" and without ":port"
Hostname(netloc) ==
    Only({IF FindAny(hostport, {":"}) = 0 THEN hostport
          ELSE Take(hostport, FindAny(hostport, {":"}) - 1) :
          hostport \in {Drop(netloc, FindAny(netloc, {"@"}))}})

----------------------------------------------------------------------------
(* 1. validate_url *)

HttpPrefix == <<"http", ":", "/", "/">>
HttpsPrefix == <<"https", ":", "/", "/">>

\* the url after "Add protocol if missing"
WithProtocol(u) ==
    IF ~(StartsWith(u, HttpPrefix) \/ StartsWith(u, HttpsPrefix)) THEN HttpsPrefix \o u ELSE u

\* validate_url(url): the normalized URL, or the ValueError it raises
validate_url(u) ==
    IF u = <<>> THEN [ok |-> FALSE, url |-> <<>>, error |-> "URL cannot be empty"]
    ELSE IF urlparse(WithProtocol(u)).netloc = <<>>
    THEN [ok |-> FALSE, url |-> <<>>, error |-> "Invalid URL"]
    ELSE [ok |-> TRUE, url |-> WithProtocol(u), error |-> ""]

----------------------------------------------------------------------------
(* 6. generate_suggestions *)

Sug(kind, n) == [kind |-> kind, n |-> n]

\* f"{load_time:.2f}": the load time (milliseconds) rounded to hundredths of a second
\* (an exact tie, x.xx5, falls by the float's binary value; no enumerated time is one)
Format2f(ms) == (ms + 5) \div 10

\* faulty variant, for sensitivity analysis: the threshold day itself counts as expiring soon
ExpiringSoonInclusive(days_left) == days_left # None /\ days_left[1] <= SSL_EXPIRY_THRESHOLD

\* "days_left is not None and days_left < CONFIG['SSL_EXPIRY_THRESHOLD']"
ExpiringSoon(days_left) == days_left # None /\ days_left[1] < SSL_EXPIRY_THRESHOLD

\* "load_time and load_time > 3"
SlowLoad(load_time) ==
    load_time # None /\ load_time[1] # 0 /\ load_time[1] > LOAD_TIME_THRESHOLD

SslSuggestions(ssl_ok, days_left) ==
    IF ~ssl_ok THEN <<Sug("install_ssl", 0)>>
    ELSE IF ExpiringSoon(days_left) THEN <<Sug("renew_ssl", days_left[1])>>
    ELSE <<>>

LinkSuggestions(brokenLinks) ==
    IF brokenLinks # <<>> THEN <<Sug("fix_links", Len(brokenLinks))>> ELSE <<>>

MobileSuggestions(mobile_result) ==
    IF ~mobile_result.responsive THEN <<Sug("viewport", 0), Sug("framework", 0)>> ELSE <<>>

PerformanceSuggestions(load_time) ==
    IF SlowLoad(load_time)
    THEN <<Sug("optimize", Format2f(load_time[1])), Sug("compress", 0), Sug("cdn", 0)>>
    ELSE <<>>

\* faulty variant, for sensitivity analysis: the responsiveness rule is applied before the broken-links rule
generate_suggestions_swapped(ssl_ok, days_left, brokenLinks, mobile_result, load_time) ==
    SslSuggestions(ssl_ok, days_left) \o MobileSuggestions(mobile_result)
        \o LinkSuggestions(brokenLinks) \o PerformanceSuggestions(load_time)

generate_suggestions(ssl_ok, days_left, brokenLinks, mobile_result, load_time) ==
    SslSuggestions(ssl_ok, days_left) \o LinkSuggestions(brokenLinks)
        \o MobileSuggestions(mobile_result) \o PerformanceSuggestions(load_time)

----------------------------------------------------------------------------
(* The environment: what the network can answer *)

Response(code) == [kind |-> "response", code |-> code]
\* requests.exceptions.RequestException (timeout, connection error, invalid URL, ...)
RequestException == [kind |-> "RequestException", code |-> 0]
\* any exception that is not a RequestException
OtherException == [kind |-> "Exception", code |-> 0]

\* answers of the top-level GET: a status code and a load time, or an exception
GetStatusCodes == {200, 503}
LoadTimes == {1200, 4500}
\* days_left values a presented certificate can give (negative: already expired)
CertDays == {10, 90}

\* answers of a HEAD probe
HeadOutcomes == {Response(200), Response(399), Response(400),
                 RequestException, OtherException}
\* how a server answers every HEAD probe unless a probe deviates
HeadDefaults == {Response(200), Response(400), RequestException, OtherException}

----------------------------------------------------------------------------
(* 2. check_site_status *)

NoStatus == [set |-> FALSE, reachable |-> FALSE, code |-> 0, error |-> "", load_time |-> None]

\* the tuple check_site_status returns for an answer of requests.get
check_site_status(answer, load_time) ==
    IF answer.kind = "response"
    THEN [set |-> TRUE, reachable |-> TRUE, code |-> answer.code, error |-> "",
          load_time |-> Some(load_time)]
    ELSE [set |-> TRUE, reachable |-> FALSE, code |-> 0, error |-> "str(e)",
          load_time |-> None]

----------------------------------------------------------------------------
(* 3. check_ssl_certificate *)

SslResult(ok, days) == [set |-> TRUE, ok |-> ok, days_left |-> days]
NoSsl == [set |-> FALSE, ok |-> FALSE, days_left |-> None]

----------------------------------------------------------------------------
(* 4. find_broken_links *)

\* "not href.startswith('#') and not href.startswith('javascript:')"
Checkable(href) == ~StartsWith(href, <<"#">>) /\ ~StartsWith(href, <<"javascript", ":">>)

\* faulty variant, for sensitivity analysis: any link that names a host is taken for a link of the page's site
SameDomainLoose(full_url, u) == urlparse(full_url).netloc # <<>>

\* "urlparse(full_url).netloc == urlparse(url).netloc"
SameDomain(full_url, u) == urlparse(full_url).netloc = urlparse(u).netloc

\* the anchors' hrefs the loop retains: not a fragment or script link, and on
\* the page's netloc once resolved; <<>> marks a skipped anchor
ResolveAnchors(anchors, u) ==
    [i \in 1..Len(anchors) |->
        IF ~Checkable(anchors[i]) THEN <<>>
        ELSE Only({IF SameDomain(full_url, u) THEN full_url ELSE <<>> :
                   full_url \in {urljoin(u, anchors[i])}})]

\* links.add(full_url) over the anchors: each retained URL once, in discovery order
FirstOccurrences(resolved) ==
    Only({[k \in 1..Cardinality(first) |->
              resolved[CHOOSE i \in first : Cardinality({j \in first : j <= i}) = k]] :
          first \in {{i \in 1..Len(resolved) :
                        /\ resolved[i] # <<>>
                        /\ \A j \in 1..(i - 1) : resolved[j] # resolved[i]}}})

\* the for loop over soup.find_all('a', href=True)
CollectLinks(anchors, u) ==
    Only({FirstOccurrences(resolved) :
          resolved \in {<<>> \o ResolveAnchors(anchors, u)}})

RECURSIVE Perms(_)
\* every ordering of a set
Perms(S) ==
    IF S = {} THEN {<<>>}
    ELSE UNION {{<<x>> \o p : p \in Perms(S \ {x})} : x \in S}

\* list(links): a set's iteration order is the implementation's; every order of a
\* short set, and discovery order and its reverse of a longer one
ListOrders(s) ==
    IF Len(s) <= MaxPermuted THEN Perms(Range(s)) ELSE {s, Reverse(s)}

\* faulty variant, for sensitivity analysis: every link of the set is checked
NoTruncate(ordered) == ordered

\* list(links)[:CONFIG["MAX_LINKS_TO_CHECK"]]
Truncate(ordered) == Take(ordered, MAX_LINKS_TO_CHECK)

BrokenStatus(link, code) == [link |-> link, reason |-> "Status", code |-> code]
BrokenError(link) == [link |-> link, reason |-> "Error: Connection failed", code |-> 0]

\* the body of the per-link try: the broken list after the answer to one HEAD
RecordLink(brokenList, link, answer) ==
    IF answer.kind = "response"
    THEN IF answer.code >= BROKEN_STATUS
         THEN Append(brokenList, BrokenStatus(link, answer.code)) ELSE brokenList
    ELSE IF answer.kind = "RequestException" THEN Append(brokenList, BrokenError(link))
    ELSE brokenList

\* whether the for loop goes on after an answer: an exception that is not a
\* RequestException leaves the loop for the outer handler
LoopContinues(answer) == answer.kind # "Exception"

----------------------------------------------------------------------------
(* 5. check_mobile_responsiveness *)

MobileResult(responsive, details) == [set |-> TRUE, responsive |-> responsive, details |-> details]
NoMobile == [set |-> FALSE, responsive |-> FALSE, details |-> <<>>]

\* the return value for a fetched page with the three signals detected or not
check_mobile_responsiveness(has_viewport, media_queries, frameworks) ==
    MobileResult(has_viewport \/ media_queries \/ frameworks,
                 (IF has_viewport THEN <<"Has viewport meta tag">> ELSE <<>>)
                 \o (IF media_queries THEN <<"Uses media queries">> ELSE <<>>)
                 \o (IF frameworks THEN <<"Uses responsive framework">> ELSE <<>>))

MobileError == MobileResult(FALSE, <<"Error checking responsiveness">>)

----------------------------------------------------------------------------
(* Inputs: raw URLs and pages *)

\* raw inputs of a whole run: empty, no host, blank, and two sites
RunInputs == {<<>>, <<"https", ":", "/", "/">>, <<SP>>, <<"a.com">>,
              <<"http", ":", "/", "/", "a.com", ":", "8080", "/", "dir", "/", "page">>}

\* page URLs find_broken_links is called with (validate_url's outputs)
LinkUrls == {<<"https", ":", "/", "/", "a.com">>,
             <<"http", ":", "/", "/", "a.com", ":", "8080", "/", "dir", "/", "page">>}

\* href values an anchor of a small page can carry
Hrefs == {<<"/", "p1">>, <<"p1">>,
          <<"https", ":", "/", "/", "a.com", "/", "p1">>,
          <<"http", ":", "/", "/", "a.com", "/", "p2">>,
          <<"/", "/", "b.com", "/", "p1">>,
          <<"https", ":", "/", "/", "b.com", "/", "p2">>,
          <<"https", ":", "/", "/", "a.com", ":", "8080", "/", "p1">>,
          <<"https", ":", "/", "/", "p1", "@", "a.com", "/", "p2">>,
          <<"#", "p1">>, <<"javascript", ":", "void(0)">>,
          <<"mailto", ":", "p1", "@", "a.com">>}

RECURSIVE SeqsOfLen(_, _)
\* the sequences over S of length n
SeqsOfLen(S, n) ==
    IF n = 0 THEN {<<>>} ELSE {Append(q, x) : q \in SeqsOfLen(S, n - 1), x \in S}

\* the sequences over S of length at most n
SeqsUpTo(S, n) == UNION {SeqsOfLen(S, k) : k \in 0..n}

\* every page of at most n anchors
SmallPages(n) == SeqsUpTo(Hrefs, n)

PathNames == <<"p1", "p2", "p3", "p4", "p5", "p6", "p7", "p8", "p9", "p10", "p11", "p12",
               "p13", "p14", "p15", "p16", "p17", "p18", "p19", "p20", "p21", "p22",
               "p23", "p24", "p25", "p26">>

\* the k-th same-domain anchor of a large page: absolute, root-relative or relative
SameDomainHref(k, u) ==
    IF k % 3 = 0
    THEN Only({<<b.scheme, ":", "/", "/">> \o b.netloc \o <<"/", PathNames[k]>> :
               b \in {urlparse(u)}})
    ELSE IF k % 3 = 1 THEN <<"/", PathNames[k]>>
    ELSE <<PathNames[k]>>

\* a page with n distinct same-domain links among cross-domain, fragment and
\* repeated anchors
BigPage(n, u) ==
    <<<<"https", ":", "/", "/", "b.com", "/", "p2">>, <<"#", "p1">>>>
    \o [k \in 1..n |-> SameDomainHref(k, u)]
    \o <<<<"/", "/", "b.com", "/", "p1">>, <<"/", "p1">>, SameDomainHref(n, u)>>

BigPages(u) == {BigPage(MAX_LINKS_TO_CHECK, u), BigPage(MAX_LINKS_TO_CHECK + MaxOver, u)}

\* pages find_broken_links is checked on alone / pages of a whole run
AllPages(u) == SmallPages(MaxAnchors) \cup BigPages(u)
RunPages(u) == {<<>>, <<<<"/", "p1">>, <<"https", ":", "/", "/", "b.com", "/", "p2">>>>,
                BigPage(MAX_LINKS_TO_CHECK + 1, u)}

----------------------------------------------------------------------------
(* 7. run_website_test, one action per call it makes *)

NoArgs == [set |-> FALSE, ssl_ok |-> FALSE, days_left |-> None, broken |-> <<>>,
           mobile_result |-> NoMobile, load_time |-> None]
NoCalls == [get |-> 0, tls |-> 0, fetch |-> 0, head |-> 0, mobile |-> 0, suggest |-> 0]
NoServer == [default |-> Response(200), faults |-> 0]

Called(op) == calls' = [calls EXCEPT ![op] = @ + 1]

\* "url = validate_url(url)" inside the try of run_website_test
Validate(ret) ==
    /\ pc = "validate"
    /\ LET v == validate_url(input)
       IN  IF v.ok
           THEN url' = v.url /\ pc' = ret /\ UNCHANGED <<outcome, escaped>>
           ELSE pc' = "done" /\ outcome' = "error" /\ escaped' = "validate_url"
                /\ UNCHANGED url
    /\ UNCHANGED <<input, status, ssl, page, server, links_to_check, idx, broken, mobile,
                   sargs, suggestions, calls, probed>>

\* faulty variant, for sensitivity analysis: an unreachable site is reported as responsive
UnreachableMobileResponsive == MobileResult(TRUE, <<"Site not reachable">>)

\* the defaults of the "else" branch when the site is not reachable
UnreachableSsl == SslResult(FALSE, None)
UnreachableMobile == MobileResult(FALSE, <<"Site not reachable">>)

\* faulty variant, for sensitivity analysis: the other probes run whether or not the site is reachable
AfterStatusUnguarded(reachable) == "ssl"

\* "if reachable:" around the three other probes
AfterStatus(reachable) == IF reachable THEN "ssl" ELSE "suggest"

\* results['status'] = check_site_status(url) and the branch on reachable
CheckSiteStatus ==
    /\ pc = "status"
    /\ Called("get")
    /\ \E answer \in {Response(c) : c \in GetStatusCodes} \cup {RequestException, OtherException},
          load_time \in LoadTimes :
          IF answer.kind = "Exception"
          THEN /\ pc' = "done" /\ outcome' = "error" /\ escaped' = "check_site_status"
               /\ UNCHANGED <<status, ssl, broken, mobile>>
          ELSE /\ status' = check_site_status(answer, load_time)
               /\ pc' = AfterStatus(status'.reachable)
               /\ IF status'.reachable
                  THEN UNCHANGED <<ssl, broken, mobile>>
                  ELSE ssl' = UnreachableSsl /\ broken' = <<>> /\ mobile' = UnreachableMobile
               /\ UNCHANGED <<outcome, escaped>>
    /\ UNCHANGED <<input, url, page, server, links_to_check, idx, sargs, suggestions, probed>>

\* results['ssl'] = check_ssl_certificate(url): every exception is caught inside
CheckSsl ==
    /\ pc = "ssl"
    /\ Called("tls")
    /\ \E r \in {SslResult(TRUE, Some(d)) : d \in CertDays} \cup {SslResult(FALSE, None)} :
          ssl' = r
    /\ pc' = "links"
    /\ UNCHANGED <<input, url, status, page, server, links_to_check, idx, broken, mobile,
                   sargs, suggestions, outcome, escaped, probed>>

\* find_broken_links up to its for loop: the page fetch, the anchors, the set, the ceiling
LinksFetch(pages, ret) ==
    /\ pc = "links"
    /\ Called("fetch")
    /\ \E answer \in {Response(200), Response(404), RequestException, OtherException} :
          IF answer.kind = "response" /\ answer.code < BROKEN_STATUS
          THEN \E p \in pages, d \in HeadDefaults :
                 \E links \in {CollectLinks(p, url)} : \E ordered \in ListOrders(links) :
                    /\ page' = p
                    /\ server' = [default |-> d, faults |-> 0]
                    /\ links_to_check' = Truncate(ordered)
                    /\ pc' = IF links_to_check' = <<>> THEN ret ELSE "head"
          ELSE /\ pc' = ret
               /\ UNCHANGED <<page, server, links_to_check>>
    /\ idx' = 0
    /\ broken' = <<>>
    /\ UNCHANGED <<input, url, status, ssl, mobile, sargs, suggestions, outcome, escaped,
                   probed>>

\* the answers the next HEAD can get, with at most `budget` deviations in a run
HeadAnswers(budget) == IF server.faults < budget THEN HeadOutcomes ELSE {server.default}

\* faulty variant, for sensitivity analysis: a link whose HEAD failed is tried again
NextIndexRetry(i, answer) == IF answer.kind = "RequestException" THEN i ELSE i + 1

\* the for loop moves to the next link after every answer
NextIndex(i, answer) == i + 1

\* one iteration of "for link in links_to_check", and the return after the last
HeadProbe(ret, budget) ==
    /\ pc = "head"
    /\ Called("head")
    /\ \E answer \in HeadAnswers(budget) :
          LET link == links_to_check[idx + 1]
          IN  /\ probed' = Append(probed, [link |-> link, host |-> Hostname(urlparse(link).netloc),
                                           answer |-> answer])
              /\ server' = [server EXCEPT !.faults = IF answer = server.default THEN @ ELSE @ + 1]
              /\ broken' = RecordLink(broken, link, answer)
              /\ idx' = NextIndex(idx, answer)
              /\ pc' = IF ~LoopContinues(answer) \/ idx' >= Len(links_to_check)
                       THEN ret ELSE "head"
    /\ UNCHANGED <<input, url, status, ssl, page, links_to_check, mobile, sargs,
                   suggestions, outcome, escaped>>

\* results['mobile'] = check_mobile_responsiveness(url): every exception is caught inside
CheckMobile ==
    /\ pc = "mobile"
    /\ Called("mobile")
    /\ \E r \in {check_mobile_responsiveness(v, m, f) : v, m, f \in BOOLEAN} \cup {MobileError} :
          mobile' = r
    /\ pc' = "suggest"
    /\ UNCHANGED <<input, url, status, ssl, page, server, links_to_check, idx, broken,
                   sargs, suggestions, outcome, escaped, probed>>

\* the generate_suggestions call and the end of the run
Suggest ==
    /\ pc = "suggest"
    /\ Called("suggest")
    /\ sargs' = [set |-> TRUE, ssl_ok |-> ssl.ok, days_left |-> ssl.days_left,
                 broken |-> broken, mobile_result |-> mobile,
                 load_time |-> status.load_time]
    /\ suggestions' = generate_suggestions(ssl.ok, ssl.days_left, broken, mobile,
                                           status.load_time)
    /\ outcome' = "completed"
    /\ pc' = "done"
    /\ UNCHANGED <<input, url, status, ssl, page, server, links_to_check, idx, broken,
                   mobile, escaped, probed>>

\* nothing fetched, nothing probed, nothing reported yet
NoLinks ==
    /\ page = <<>> /\ server = NoServer /\ links_to_check = <<>> /\ idx = 0
    /\ broken = <<>> /\ probed = <<>>
NoReport ==
    /\ sargs = NoArgs /\ suggestions = <<>> /\ outcome = "" /\ escaped = "none"
    /\ calls = NoCalls

(* A whole run of run_website_test *)
Init ==
    /\ pc = "validate" /\ input \in RunInputs /\ url = <<>>
    /\ status = NoStatus /\ ssl = NoSsl /\ mobile = NoMobile /\ NoLinks /\ NoReport

Next ==
    \/ Validate("status")
    \/ CheckSiteStatus
    \/ CheckSsl
    \/ LinksFetch(RunPages(url), "mobile")
    \/ HeadProbe("mobile", MaxRunFaults)
    \/ CheckMobile
    \/ Suggest

Spec == Init /\ [][Next]_vars

----------------------------------------------------------------------------
(* validate_url on every short input *)

InputAtoms == {SP, TAB, "https", ":", "/", "a.com"}
WordAtoms == {"https", "a.com"}

\* the atom sequences of at most n atoms that are the lexing of a string: no two
\* words side by side
ValidateInputs(n) ==
    {s \in SeqsUpTo(InputAtoms, n) :
        \A i \in 1..(Len(s) - 1) : ~(s[i] \in WordAtoms /\ s[i + 1] \in WordAtoms)}

InitValidate ==
    /\ pc = "validate" /\ input \in ValidateInputs(MaxInputLen) /\ url = <<>>
    /\ status = NoStatus /\ ssl = NoSsl /\ mobile = NoMobile /\ NoLinks /\ NoReport

NextValidate == Validate("returned")

SpecValidate == InitValidate /\ [][NextValidate]_vars

----------------------------------------------------------------------------
(* find_broken_links called on its own *)

InitLinks ==
    /\ pc = "links" /\ input = <<>> /\ url \in LinkUrls
    /\ status = NoStatus /\ ssl = NoSsl /\ mobile = NoMobile /\ NoLinks /\ NoReport

NextLinks ==
    \/ LinksFetch(AllPages(url), "returned")
    \/ HeadProbe("returned", MaxFaults)

SpecLinks == InitLinks /\ [][NextLinks]_vars

----------------------------------------------------------------------------
(* generate_suggestions on every combination of results *)

SuggestDays == {None} \cup {Some(d) : d \in (0 - MaxDaysOver)..(SSL_EXPIRY_THRESHOLD + MaxDaysOver)}
SuggestLoadTimes == {None, Some(0), Some(1200), Some(3000), Some(3001), Some(4500)}
SuggestBroken ==
    {[k \in 1..n |-> BrokenError(<<"https", ":", "/", "/", "a.com", "/", PathNames[k]>>)] :
        n \in 0..MaxBroken}
SuggestMobile ==
    {check_mobile_responsiveness(v, m, f) : v, m, f \in BOOLEAN}
        \cup {MobileError, UnreachableMobile}

InitSuggest ==
    /\ pc = "suggest" /\ input = <<>> /\ url = <<>>
    /\ \E ok \in BOOLEAN, d \in SuggestDays : ssl = SslResult(ok, d)
    /\ \E t \in SuggestLoadTimes :
          status = [set |-> TRUE, reachable |-> t # None, code |-> 0, error |-> "",
                    load_time |-> t]
    /\ mobile \in SuggestMobile
    /\ page = <<>> /\ server = NoServer /\ links_to_check = <<>> /\ idx = 0 /\ probed = <<>>
    /\ broken \in SuggestBroken
    /\ NoReport

NextSuggest == Suggest

SpecSuggest == InitSuggest /\ [][NextSuggest]_vars

----------------------------------------------------------------------------
(* The claims *)

Unreachable == status.set /\ ~status.reachable
NetworkOps == calls.get + calls.tls + calls.fetch + calls.mobile + calls.head
HostOf(u) == Hostname(urlparse(u).netloc)
Kinds(sugs) == [i \in 1..Len(sugs) |-> sugs[i].kind]
Blank(s) == \A i \in 1..Len(s) : s[i] \in {SP, TAB}

\* C1: once the reachability probe has returned reachable=false, the certificate,
\* link and responsiveness probes are never invoked, the three results hold the
\* fixed defaults, and the run ends completed, after one generate_suggestions
\* call, never in the error outcome.
C1_UnreachableSkipsProbes ==
    Unreachable =>
        /\ calls.tls = 0 /\ calls.fetch = 0 /\ calls.head = 0 /\ calls.mobile = 0
        /\ ssl = [set |-> TRUE, ok |-> FALSE, days_left |-> <<>>]
        /\ broken = <<>>
        /\ mobile = [set |-> TRUE, responsive |-> FALSE, details |-> <<"Site not reachable">>]
        /\ outcome # "error" /\ escaped = "none"
        /\ pc \in {"suggest", "done"}
        /\ pc = "done" => (outcome = "completed" /\ calls.suggest = 1 /\ sargs.set)

\* a run that found the site unreachable and has ended
C1_Witness == Unreachable /\ pc = "done" /\ outcome = "completed"

\* C2 (as claimed): validate_url rejects every empty or whitespace-only input and
\* returns no normalized URL for it.
C2_BlankInputRejected ==
    (pc # "validate" /\ Blank(input)) => (outcome = "error" /\ url = <<>>)

\* C3: find_broken_links checks at most MAX_LINKS_TO_CHECK links, each a distinct
\* link of the page's set cut before the first probe, and returns at most that
\* many entries, however many same-domain links the page has.
C3_CeilingHolds ==
    /\ Len(links_to_check) <= MAX_LINKS_TO_CHECK
    /\ Len(probed) <= MAX_LINKS_TO_CHECK
    /\ Len(broken) <= MAX_LINKS_TO_CHECK
    /\ Cardinality(Range(links_to_check)) = Len(links_to_check)

\* a page with more distinct same-domain links than the ceiling, all of them
\* broken: the returned list is exactly as long as the ceiling
C3_Witness ==
    /\ pc = "returned"
    /\ Len(broken) = MAX_LINKS_TO_CHECK
    /\ Len(CollectLinks(page, url)) > MAX_LINKS_TO_CHECK

\* C4: every HEAD request of find_broken_links goes to the host of the page URL,
\* and every entry it reports is a link it probed, so an anchor that resolves to
\* another host is never probed and never reported.
C4_SameHostOnly ==
    /\ \A host \in {HostOf(url)} : \A i \in 1..Len(probed) : probed[i].host = host
    /\ \A i \in 1..Len(broken) : \E j \in 1..Len(probed) : probed[j].link = broken[i].link

\* a page with a same-domain and a cross-domain anchor, after its links were probed
C4_Witness ==
    /\ pc = "returned" /\ broken # <<>> /\ Len(page) <= MaxAnchors
    /\ \E i \in 1..Len(page) :
          /\ urlparse(urljoin(url, page[i])).netloc # <<>>
          /\ HostOf(urljoin(url, page[i])) # HostOf(url)

\* C5: the suggestions come in the fixed rule order certificate, broken links,
\* viewport, framework, optimize, compress, CDN; with an invalid certificate,
\* broken links, no responsiveness and a load time above 3 s they are exactly
\* those seven, in that order.
C5_Rank(kind) ==
    CASE kind \in {"install_ssl", "renew_ssl"} -> 1
      [] kind = "fix_links" -> 2
      [] kind = "viewport" -> 3
      [] kind = "framework" -> 4
      [] kind = "optimize" -> 5
      [] kind = "compress" -> 6
      [] kind = "cdn" -> 7

C5_FixedOrder ==
    sargs.set =>
        /\ \A i \in 1..(Len(suggestions) - 1) :
              C5_Rank(suggestions[i].kind) < C5_Rank(suggestions[i + 1].kind)
        /\ ( /\ ~sargs.ssl_ok /\ sargs.broken # <<>> /\ ~sargs.mobile_result.responsive
             /\ sargs.load_time # <<>> /\ sargs.load_time[1] > 3000 )
           => Kinds(suggestions) = <<"install_ssl", "fix_links", "viewport", "framework",
                                     "optimize", "compress", "cdn">>

\* all four rules fired
C5_Witness ==
    /\ sargs.set /\ ~sargs.ssl_ok /\ Len(sargs.broken) = 2
    /\ ~sargs.mobile_result.responsive /\ sargs.load_time = <<4500>>
    /\ Len(suggestions) = 7

\* C6 (as claimed): no exception of a probe reaches run_website_test; its handler
\* only ever sees validate_url's error.
C6_NoProbeExceptionEscapes == escaped \in {"none", "validate_url"}

\* C7 (as claimed): when find_broken_links returns, every retained link was probed,
\* in order, and the broken list holds exactly the links whose probe failed or
\* answered with a status of 400 or more.
C7_EveryLinkProbed ==
    pc = "returned" =>
        /\ [i \in 1..Len(probed) |-> probed[i].link] = links_to_check
        /\ {broken[i].link : i \in 1..Len(broken)}
            = {probed[i].link : i \in {j \in 1..Len(probed) :
                    probed[j].answer.kind # "response" \/ probed[j].answer.code >= 400}}

\* C8: at most one certificate suggestion and no suggestion twice; "install" iff
\* the certificate is invalid; "renew", with the day count, iff it is valid and
\* days_left is present and below SSL_EXPIRY_THRESHOLD; no rule triggered gives
\* the empty list.
C8_CertificateRule ==
    sargs.set =>
        LET has(kind) == \E i \in 1..Len(suggestions) : suggestions[i].kind = kind
            soon == sargs.days_left # <<>> /\ sargs.days_left[1] < 15
        IN  /\ Cardinality({i \in 1..Len(suggestions) :
                              suggestions[i].kind \in {"install_ssl", "renew_ssl"}}) <= 1
            /\ \A i, j \in 1..Len(suggestions) :
                  i # j => suggestions[i].kind # suggestions[j].kind
            /\ has("install_ssl") <=> ~sargs.ssl_ok
            /\ has("renew_ssl") <=> (sargs.ssl_ok /\ soon)
            /\ has("renew_ssl") => suggestions[1] = [kind |-> "renew_ssl", n |-> sargs.days_left[1]]
            /\ ( /\ sargs.ssl_ok /\ ~soon /\ sargs.broken = <<>>
                 /\ sargs.mobile_result.responsive
                 /\ ~(sargs.load_time # <<>> /\ sargs.load_time[1] > 3000) )
               => suggestions = <<>>

\* a valid certificate one day inside the threshold: the renewal suggestion
C8_Witness ==
    /\ sargs.set /\ sargs.ssl_ok /\ sargs.days_left = <<14>>
    /\ suggestions # <<>> /\ suggestions[1] = [kind |-> "renew_ssl", n |-> 14]

\* C9: no operation is retried: one reachability GET, one TLS connection, one
\* page fetch, one responsiveness fetch and one HEAD per retained link at most,
\* so at most 4 + MAX_LINKS_TO_CHECK network operations in a run.
C9_NoRetries ==
    /\ calls.get <= 1 /\ calls.tls <= 1 /\ calls.fetch <= 1 /\ calls.mobile <= 1
    /\ calls.head = Len(probed)
    /\ Cardinality({probed[i].link : i \in 1..Len(probed)}) = Len(probed)
    /\ NetworkOps <= 4 + MAX_LINKS_TO_CHECK

\* a run that used the whole budget although one HEAD failed
C9_Witness ==
    /\ pc = "done" /\ NetworkOps = 4 + MAX_LINKS_TO_CHECK
    /\ \E i \in 1..Len(probed) : probed[i].answer.kind = "RequestException"

\* C10: a run that found the site unreachable ends with exactly the suggestions
\* install a certificate, add a viewport tag, consider a responsive framework.
C10_UnreachableSuggestions ==
    (Unreachable /\ pc = "done") =>
        suggestions = <<[kind |-> "install_ssl", n |-> 0], [kind |-> "viewport", n |-> 0],
                        [kind |-> "framework", n |-> 0]>>

\* the synthesizer ran on the defaults of an unreachable site
C10_Witness ==
    /\ Unreachable /\ sargs.set /\ ~sargs.ssl_ok /\ sargs.load_time = <<>>
    /\ Len(suggestions) = 3

====
